---- MODULE Spec2Model ----
(***************************************************************************)
(* Model of webview/services/pyodide/pyodide_kernel.py: the JSON cleaner   *)
(* json_clean, the two LiteStream instances, LiteDisplayPublisher,         *)
(* LiteInteractiveShell._showtraceback and LiteDisplayHook, driven by an   *)
(* engine that sets builtins._current_msg_id and by a host that assigns    *)
(* the callback attributes.                                                *)
(***************************************************************************)
EXTENDS Integers, Sequences, FiniteSets, TLC

(***************************************************************************)
(* Bounds of the model.                                                    *)
(***************************************************************************)
\* longest list / tuple / set / iterator handed to json_clean
MaxLen == 2
\* most keys of a dict handed to json_clean
MaxKeys == 2
\* deepest nesting of containers handed to json_clean
MaxDepth == 3
\* most adapter calls in one behaviour of the adapters
MaxCalls == 3
\* most calls of the display hook and the traceback hook in one behaviour of
\* the engine's protocol for results
MaxHookCalls == 5

(***************************************************************************)
(* Python values.  Every value is a record tagged by its Python type in t. *)
(* Scalars carry their text in v (an int, or another numbers.Integral, its *)
(* decimal numeral, a float its repr, a Fraction its str(), bytes their    *)
(* content, any other object its str()); sequences carry                   *)
(* their elements, in iteration order, in items; a dict carries its        *)
(* entries, in insertion order, as <<key, value>> tuples in pairs.         *)
(***************************************************************************)
PyBool(b) == [t |-> "bool", v |-> IF b THEN "True" ELSE "False"]
PyInt(n) == [t |-> "int", v |-> n]
PyFloat(r) == [t |-> "float", v |-> r]
PyNone == [t |-> "none", v |-> "None"]
PyStr(s) == [t |-> "str", v |-> s]
PyBytes(s) == [t |-> "bytes", v |-> s]
PyIntegral(n) == [t |-> "integral", v |-> n]
PyFraction(q) == [t |-> "fraction", v |-> q]
PyObject(s) == [t |-> "object", v |-> s]
PyList(xs) == [t |-> "list", items |-> xs]
PyTuple(xs) == [t |-> "tuple", items |-> xs]
PySet(xs) == [t |-> "set", items |-> xs]
PyGenerator(xs) == [t |-> "generator", items |-> xs]
PyIterator(xs) == [t |-> "iterator", items |-> xs]
PyDict(ps) == [t |-> "dict", pairs |-> ps]

\* the empty dict {}
EmptyDict == PyDict(<<>>)

\* the outcome of a call that raised ValueError instead of returning
Raised == [t |-> "raise", v |-> "ValueError"]

\* str(obj) of a scalar
str(obj) ==
    IF obj.t = "bytes" THEN "b'" \o obj.v \o "'" ELSE obj.v

\* binascii.b2a_base64(data).decode("ascii"): the base64 text and a newline
b2a_base64(data) ==
    CASE data = "AB" -> "QUI=\n"
      [] data = "" -> "\n"
      [] OTHER -> "base64(" \o data \o ")\n"

\* float(obj) of a numbers.Real that is no float (a Fraction), as a repr
float(q) ==
    CASE q = "3/2" -> "1.5"
      [] q = "1/4" -> "0.25"
      [] OTHER -> "float(" \o q \o ")"

\* math.isnan(obj) alone
isnan_only(r) == r = "nan"

\* math.isnan(obj) or math.isinf(obj), on the repr of a float
isnan_or_isinf(r) == r \in {"nan", "inf", "-inf"}

\* out[k] = v on a dict's entries: an existing key keeps its place and gets
\* the new value, a new key is appended
DictSetItem(ps, k, val) ==
    IF \E i \in 1..Len(ps) : ps[i][1] = k
    THEN [i \in 1..Len(ps) |-> IF ps[i][1] = k THEN <<k, val>> ELSE ps[i]]
    ELSE Append(ps, <<k, val>>)

RECURSIVE json_clean(_)
RECURSIVE CleanItems(_, _)
RECURSIVE CleanPairs(_, _, _)

\* the list made of a container with its elements left as they are
CleanItems_shallow(xs, i) == [ok |-> TRUE, xs |-> xs]

\* [json_clean(x) for x in obj]: the first element that raises ends the
\* comprehension with its exception (ok = FALSE)
CleanItems(xs, i) ==
    IF i > Len(xs) THEN [ok |-> TRUE, xs |-> <<>>]
    ELSE LET head == json_clean(xs[i])
         IN IF head.t = "raise" THEN [ok |-> FALSE, xs |-> <<>>]
            ELSE LET rest == CleanItems(xs, i + 1)
                 IN IF rest.ok THEN [ok |-> TRUE, xs |-> <<head>> \o rest.xs]
                    ELSE rest

\* for k, v in obj.items(): out[str(k)] = json_clean(v)
CleanPairs(ps, i, out) ==
    IF i > Len(ps) THEN [ok |-> TRUE, ps |-> out]
    ELSE LET cleaned == json_clean(ps[i][2])
         IN IF cleaned.t = "raise" THEN [ok |-> FALSE, ps |-> <<>>]
            ELSE CleanPairs(ps, i + 1, DictSetItem(out, PyStr(str(ps[i][1])), cleaned))

\* the dict branch of json_clean with the key-collision check left out
json_clean_dict_nocheck(obj) ==
    LET out == CleanPairs(obj.pairs, 1, <<>>)
    IN IF out.ok THEN PyDict(out.ps) ELSE Raised

\* the dict branch of json_clean: refuse colliding keys, else rebuild
json_clean_dict(obj) ==
    LET nkeys == Len(obj.pairs)
        nkeys_collapsed == Cardinality({str(obj.pairs[i][1]) : i \in 1..Len(obj.pairs)})
    IN IF nkeys # nkeys_collapsed THEN Raised
       ELSE LET out == CleanPairs(obj.pairs, 1, <<>>)
            IN IF out.ok THEN PyDict(out.ps) ELSE Raised

json_clean(obj) ==
    IF obj.t = "bool" THEN obj
    ELSE IF obj.t \in {"int", "integral"} THEN PyInt(obj.v)
    ELSE IF obj.t = "float"
         THEN IF isnan_or_isinf(obj.v) THEN PyStr(obj.v) ELSE obj
    ELSE IF obj.t = "fraction" THEN PyFloat(float(obj.v))
    ELSE IF obj.t \in {"str", "none"} THEN obj
    ELSE IF obj.t = "bytes" THEN PyStr(b2a_base64(obj.v))
    ELSE LET lst == IF obj.t \in {"tuple", "set", "generator", "iterator"}
                    THEN PyList(obj.items) ELSE obj
         IN IF lst.t = "list"
            THEN LET cleaned == CleanItems(lst.items, 1)
                 IN IF cleaned.ok THEN PyList(cleaned.xs) ELSE Raised
            ELSE IF lst.t = "dict" THEN json_clean_dict(lst)
            ELSE PyStr(str(obj))

\* encode_images(format_dict): a pass-through
encode_images(format_dict) == format_dict

\* bool(obj): Python truthiness
truth(obj) ==
    CASE obj.t = "none" -> FALSE
      [] obj.t = "bool" -> obj.v = "True"
      [] obj.t = "str" -> obj.v # ""
      [] obj.t = "dict" -> obj.pairs # <<>>
      [] obj.t \in {"list", "tuple", "set"} -> obj.items # <<>>
      [] OTHER -> TRUE

(***************************************************************************)
(* The state: builtins._current_msg_id, the callback attributes of the two *)
(* LiteStream instances, of the display publisher, of the shell and of the *)
(* display hook, the display hook's data and metadata, and what the host's *)
(* callbacks and the original streams have received.                       *)
(***************************************************************************)
VARIABLES
    current_msg_id,               \* builtins._current_msg_id, or None
    publish_stream_callback,      \* per stream: is a callback assigned
    original_has_write,           \* per stream: hasattr(_original_stream, 'write')
    original_stream,              \* per stream: the texts written to _original_stream
    clear_output_callback,        \* LiteDisplayPublisher.clear_output_callback is assigned
    update_display_data_callback, \* LiteDisplayPublisher.update_display_data_callback is assigned
    display_data_callback,        \* LiteDisplayPublisher.display_data_callback is assigned
    publish_error_callback,       \* LiteInteractiveShell.publish_error_callback is assigned
    publish_execution_result,     \* LiteDisplayHook.publish_execution_result is assigned
    data,                         \* LiteDisplayHook.data
    metadata,                     \* LiteDisplayHook.metadata
    log,                          \* the callback invocations, in order, with their arguments
    ncalls,                       \* the adapter calls made so far
    last,                         \* the most recent step, with the state it started from
    dropped,                      \* the payloads of the calls dropped for want of a request
    pc,                           \* where the engine is in its handling of a request
    request,                      \* the request the engine is handling, and its calls so far
    clean_in,                     \* the argument of a direct call of json_clean
    clean_out                     \* its outcome, or NotCalled

\* the callback attributes
callback_vars == <<publish_stream_callback, clear_output_callback,
                   update_display_data_callback, display_data_callback,
                   publish_error_callback, publish_execution_result>>

\* the original streams
stream_vars == <<original_has_write, original_stream>>

\* the display hook's accumulated result
hook_vars == <<data, metadata>>

\* the engine's own position
engine_vars == <<pc, request>>

\* the direct call of json_clean
clean_vars == <<clean_in, clean_out>>

\* what an adapter call may read or write
adapter_vars == <<current_msg_id, callback_vars, stream_vars, hook_vars, log, ncalls,
                  last, dropped>>

vars == <<adapter_vars, engine_vars, clean_vars>>

\* the names of the two module-level streams
StreamNames == {"stdout", "stderr"}

\* the value of _current_msg_id when it is None or not set
None == "None"

\* the request ids the engine uses
RequestIds == {"req-1", "req-2"}

\* json_clean not called yet
NotCalled == [t |-> "notcalled", v |-> ""]

\* the callback attributes as one record
Callbacks ==
    [publish_stream_callback |-> publish_stream_callback,
     clear_output_callback |-> clear_output_callback,
     update_display_data_callback |-> update_display_data_callback,
     display_data_callback |-> display_data_callback,
     publish_error_callback |-> publish_error_callback,
     publish_execution_result |-> publish_execution_result]

\* a step that is no adapter call
NoCall == [op |-> "none"]

\* an adapter call: its name, its arguments, whether it raised, what it
\* returned, and the state it was made in
Call(op, args, raised, ret) ==
    [op |-> op, args |-> args, raised |-> raised, ret |-> ret,
     msg_id |-> current_msg_id, cb |-> Callbacks, data |-> data, metadata |-> metadata,
     nlog |-> Len(log),
     nwritten |-> [n \in StreamNames |-> Len(original_stream[n])]]

\* the bookkeeping of an adapter call; drops are the payloads it dropped
\* because no request was active
Called(op, args, raised, ret, drops) ==
    /\ ncalls' = ncalls + 1
    /\ last' = Call(op, args, raised, ret)
    /\ dropped' = dropped \cup drops

(***************************************************************************)
(* The state after the module is imported: no callback assigned, the       *)
(* display hook empty, no message id set.                                  *)
(***************************************************************************)
InitAdapters ==
    /\ current_msg_id = None
    /\ publish_stream_callback = [n \in StreamNames |-> FALSE]
    /\ original_stream = [n \in StreamNames |-> <<>>]
    /\ clear_output_callback = FALSE
    /\ update_display_data_callback = FALSE
    /\ display_data_callback = FALSE
    /\ publish_error_callback = FALSE
    /\ publish_execution_result = FALSE
    /\ data = EmptyDict
    /\ metadata = EmptyDict
    /\ log = <<>>
    /\ ncalls = 0
    /\ last = NoCall
    /\ dropped = {}

\* the engine before its first request
InitEngine ==
    /\ pc = "setup"
    /\ request = [id |-> None, nlog |-> 0, calls |-> <<>>]

\* json_clean not called directly
InitClean ==
    /\ clean_in = PyNone
    /\ clean_out = NotCalled

(***************************************************************************)
(* The engine and the host.                                                *)
(***************************************************************************)
\* the engine sets builtins._current_msg_id before a request and sets it to
\* None after it
set_current_msg_id(id) ==
    /\ current_msg_id' = id
    /\ last' = NoCall
    /\ UNCHANGED <<callback_vars, stream_vars, hook_vars, log, ncalls, dropped>>

\* the host assigns a stream's publish_stream_callback, or None
set_publish_stream_callback(name, assigned) ==
    /\ publish_stream_callback' = [publish_stream_callback EXCEPT ![name] = assigned]
    /\ last' = NoCall
    /\ UNCHANGED <<current_msg_id, stream_vars, clear_output_callback,
                   update_display_data_callback, display_data_callback,
                   publish_error_callback, publish_execution_result, hook_vars, log,
                   ncalls, dropped>>

\* the host assigns one of the other callback attributes, or None
set_callback(attr, assigned) ==
    /\ clear_output_callback' =
           IF attr = "clear_output_callback" THEN assigned ELSE clear_output_callback
    /\ update_display_data_callback' =
           IF attr = "update_display_data_callback" THEN assigned
           ELSE update_display_data_callback
    /\ display_data_callback' =
           IF attr = "display_data_callback" THEN assigned ELSE display_data_callback
    /\ publish_error_callback' =
           IF attr = "publish_error_callback" THEN assigned ELSE publish_error_callback
    /\ publish_execution_result' =
           IF attr = "publish_execution_result" THEN assigned ELSE publish_execution_result
    /\ last' = NoCall
    /\ UNCHANGED <<current_msg_id, publish_stream_callback, stream_vars, hook_vars, log,
                   ncalls, dropped>>

\* the host assigns every callback attribute, or sets every one to None
set_callbacks(assigned) ==
    /\ publish_stream_callback' = [n \in StreamNames |-> assigned]
    /\ clear_output_callback' = assigned
    /\ update_display_data_callback' = assigned
    /\ display_data_callback' = assigned
    /\ publish_error_callback' = assigned
    /\ publish_execution_result' = assigned
    /\ last' = NoCall
    /\ UNCHANGED <<current_msg_id, stream_vars, hook_vars, log, ncalls, dropped>>

(***************************************************************************)
(* LiteStream.                                                             *)
(***************************************************************************)
\* len(text) if text else 0
write_result(text) == IF text # "" THEN Len(text) ELSE 0

\* write with the check of the message id left out
write_dispatches_without_id(name) ==
    publish_stream_callback[name]

\* write hands the text to the callback
write_dispatches(name) ==
    publish_stream_callback[name] /\ current_msg_id # None

\* write falling back only while no request is active
write_falls_back_when_idle(name) ==
    ~publish_stream_callback[name] /\ original_has_write[name] /\ current_msg_id = None

\* write hands the text to the original stream
write_falls_back(name) ==
    ~publish_stream_callback[name] /\ original_has_write[name]

write(name, text) ==
    /\ Called("write", [name |-> name, text |-> text], FALSE, write_result(text), {})
    /\ log' = IF write_dispatches(name)
              THEN Append(log, [cb |-> "publish_stream_callback", msg_id |-> current_msg_id,
                                name |-> name, text |-> text])
              ELSE log
    /\ original_stream' =
           IF write_falls_back(name)
           THEN [original_stream EXCEPT ![name] = Append(@, text)]
           ELSE original_stream
    /\ UNCHANGED <<current_msg_id, callback_vars, original_has_write, hook_vars>>

\* flush handing an empty text to the callback, as a write would
flush_delivering(name) ==
    /\ Called("flush", [name |-> name], FALSE, 0, {})
    /\ log' = IF write_dispatches(name)
              THEN Append(log, [cb |-> "publish_stream_callback", msg_id |-> current_msg_id,
                                name |-> name, text |-> ""])
              ELSE log
    /\ UNCHANGED <<current_msg_id, callback_vars, stream_vars, hook_vars>>

\* flush does nothing
flush(name) ==
    /\ Called("flush", [name |-> name], FALSE, 0, {})
    /\ UNCHANGED <<current_msg_id, callback_vars, stream_vars, hook_vars, log>>

(***************************************************************************)
(* LiteDisplayPublisher.                                                   *)
(***************************************************************************)
\* publish calls update_display_data_callback
publish_updates(update) ==
    current_msg_id # None /\ update /\ update_display_data_callback

\* publish with an update never routed to display_data_callback
publish_displays_no_fallback(update) ==
    current_msg_id # None /\ ~update /\ display_data_callback

\* publish calls display_data_callback: the elif of a failed
\* "update and self.update_display_data_callback"
publish_displays(update) ==
    /\ current_msg_id # None
    /\ ~(update /\ update_display_data_callback)
    /\ display_data_callback

\* publish with an if in the place of the elif: an update goes to both
\* callbacks
publish_event_both(d, md, transient, update) ==
    (IF publish_updates(update)
     THEN <<[cb |-> "update_display_data_callback", msg_id |-> current_msg_id,
             data |-> d, metadata |-> md, transient |-> transient]>>
     ELSE <<>>)
    \o (IF current_msg_id # None /\ display_data_callback
        THEN <<[cb |-> "display_data_callback", msg_id |-> current_msg_id,
                data |-> d, metadata |-> md, transient |-> transient]>>
        ELSE <<>>)

\* the event publish hands to the host, if any
publish_event(d, md, transient, update) ==
    IF publish_updates(update)
    THEN <<[cb |-> "update_display_data_callback", msg_id |-> current_msg_id,
            data |-> d, metadata |-> md, transient |-> transient]>>
    ELSE IF publish_displays(update)
    THEN <<[cb |-> "display_data_callback", msg_id |-> current_msg_id,
            data |-> d, metadata |-> md, transient |-> transient]>>
    ELSE <<>>

\* publish as it would be with json_clean applied to data first
publish_cleaning(d, md, transient, update) ==
    LET cleaned == json_clean(d)
    IN /\ Called("publish",
                 [data |-> d, metadata |-> md, transient |-> transient, update |-> update],
                 cleaned.t = "raise", 0,
                 IF current_msg_id = None THEN {d} ELSE {})
       /\ log' = IF cleaned.t = "raise" THEN log
                 ELSE log \o publish_event(cleaned, md, transient, update)
       /\ UNCHANGED <<current_msg_id, callback_vars, stream_vars, hook_vars>>

publish(d, md, transient, update) ==
    /\ Called("publish",
              [data |-> d, metadata |-> md, transient |-> transient, update |-> update],
              FALSE, 0,
              IF current_msg_id = None THEN {d} ELSE {})
    /\ log' = log \o publish_event(d, md, transient, update)
    /\ UNCHANGED <<current_msg_id, callback_vars, stream_vars, hook_vars>>

\* clear_output calls clear_output_callback
clear_output_dispatches ==
    clear_output_callback /\ current_msg_id # None

clear_output(wait) ==
    /\ Called("clear_output", [wait |-> wait], FALSE, 0, {})
    /\ log' = IF clear_output_dispatches
              THEN Append(log, [cb |-> "clear_output_callback", msg_id |-> current_msg_id,
                                wait |-> wait])
              ELSE log
    /\ UNCHANGED <<current_msg_id, callback_vars, stream_vars, hook_vars>>

(***************************************************************************)
(* LiteInteractiveShell.                                                   *)
(***************************************************************************)
\* _showtraceback dispatching also when etype is None
showtraceback_dispatches_any_type(etype) ==
    publish_error_callback /\ current_msg_id # None

\* _showtraceback calls publish_error_callback; etype is a class, given by
\* its name, or None
showtraceback_dispatches(etype) ==
    publish_error_callback /\ current_msg_id # None /\ etype # None

\* etype.__name__ if etype else "Error": a class is true
error_name(etype) == IF etype # None THEN etype ELSE "Error"

\* the message taken with repr instead of str
error_value_repr(evalue) == IF truth(evalue) THEN "'" \o str(evalue) \o "'" ELSE ""

\* str(evalue) if evalue else ""
error_value(evalue) == IF truth(evalue) THEN str(evalue) ELSE ""

\* _showtraceback emptying the display hook as well
showtraceback_resetting(etype, evalue, stb) ==
    /\ Called("_showtraceback", [etype |-> etype, evalue |-> evalue, stb |-> stb],
              FALSE, 0, {})
    /\ log' = IF showtraceback_dispatches(etype)
              THEN Append(log, [cb |-> "publish_error_callback", msg_id |-> current_msg_id,
                                ename |-> error_name(etype),
                                evalue |-> error_value(evalue), traceback |-> stb])
              ELSE log
    /\ data' = EmptyDict
    /\ metadata' = EmptyDict
    /\ UNCHANGED <<current_msg_id, callback_vars, stream_vars>>

showtraceback(etype, evalue, stb) ==
    /\ Called("_showtraceback", [etype |-> etype, evalue |-> evalue, stb |-> stb],
              FALSE, 0, {})
    /\ log' = IF showtraceback_dispatches(etype)
              THEN Append(log, [cb |-> "publish_error_callback", msg_id |-> current_msg_id,
                                ename |-> error_name(etype),
                                evalue |-> error_value(evalue), traceback |-> stb])
              ELSE log
    /\ UNCHANGED <<current_msg_id, callback_vars, stream_vars, hook_vars>>

(***************************************************************************)
(* LiteDisplayHook.                                                        *)
(***************************************************************************)
\* start_displayhook leaving data and metadata as they are
start_displayhook_keeping ==
    /\ Called("start_displayhook", <<>>, FALSE, 0, {})
    /\ UNCHANGED <<current_msg_id, callback_vars, stream_vars, hook_vars, log>>

start_displayhook ==
    /\ Called("start_displayhook", <<>>, FALSE, 0, {})
    /\ data' = EmptyDict
    /\ metadata' = EmptyDict
    /\ UNCHANGED <<current_msg_id, callback_vars, stream_vars, log>>

\* write_format_data storing the format dict as it came
format_data_uncleaned(format_dict) == encode_images(format_dict)

\* write_format_data adding the cleaned entries to those data already has
format_data_merging(format_dict) ==
    LET cleaned == json_clean(encode_images(format_dict))
        kept == SelectSeq(data.pairs,
                          LAMBDA p : \A i \in 1..Len(cleaned.pairs) :
                                         cleaned.pairs[i][1] # p[1])
    IN IF cleaned.t = "raise" THEN cleaned ELSE PyDict(kept \o cleaned.pairs)

\* what write_format_data stores as data, or Raised
format_data(format_dict) == json_clean(encode_images(format_dict))

\* md_dict or {}
format_metadata(md_dict) == IF truth(md_dict) THEN md_dict ELSE EmptyDict

\* write_format_data storing the metadata before it cleans the data
write_format_data_metadata_first(format_dict, md_dict) ==
    LET cleaned == format_data(format_dict)
    IN /\ Called("write_format_data", [format_dict |-> format_dict, md_dict |-> md_dict],
                 cleaned.t = "raise", 0, {})
       /\ metadata' = format_metadata(md_dict)
       /\ data' = IF cleaned.t = "raise" THEN data ELSE cleaned
       /\ UNCHANGED <<current_msg_id, callback_vars, stream_vars, log>>

write_format_data(format_dict, md_dict) ==
    LET cleaned == format_data(format_dict)
    IN /\ Called("write_format_data", [format_dict |-> format_dict, md_dict |-> md_dict],
                 cleaned.t = "raise", 0, {})
       /\ IF cleaned.t = "raise"
          THEN UNCHANGED <<data, metadata>>
          ELSE /\ data' = cleaned
               /\ metadata' = format_metadata(md_dict)
       /\ UNCHANGED <<current_msg_id, callback_vars, stream_vars, log>>

\* finish_displayhook dispatching without a look at the callback attribute
finish_dispatches_unchecked ==
    current_msg_id # None

\* finish_displayhook calls publish_execution_result
finish_dispatches ==
    publish_execution_result /\ current_msg_id # None

\* finish_displayhook emptying data and metadata only after a dispatch
finish_displayhook_reset_on_dispatch(prompt_count) ==
    /\ Called("finish_displayhook", [prompt_count |-> prompt_count], FALSE, 0,
              IF current_msg_id = None /\ data # EmptyDict THEN {data} ELSE {})
    /\ log' = IF finish_dispatches
              THEN Append(log, [cb |-> "publish_execution_result",
                                msg_id |-> current_msg_id, prompt_count |-> prompt_count,
                                data |-> data, metadata |-> metadata])
              ELSE log
    /\ data' = IF finish_dispatches THEN EmptyDict ELSE data
    /\ metadata' = IF finish_dispatches THEN EmptyDict ELSE metadata
    /\ UNCHANGED <<current_msg_id, callback_vars, stream_vars>>

\* sys.stdout.flush() and sys.stderr.flush() come first and do nothing (see
\* flush); prompt_count is the engine's execution counter
finish_displayhook(prompt_count) ==
    /\ Called("finish_displayhook", [prompt_count |-> prompt_count], FALSE, 0,
              IF current_msg_id = None /\ data # EmptyDict THEN {data} ELSE {})
    /\ log' = IF finish_dispatches
              THEN Append(log, [cb |-> "publish_execution_result",
                                msg_id |-> current_msg_id, prompt_count |-> prompt_count,
                                data |-> data, metadata |-> metadata])
              ELSE log
    /\ data' = EmptyDict
    /\ metadata' = EmptyDict
    /\ UNCHANGED <<current_msg_id, callback_vars, stream_vars>>

(***************************************************************************)
(* The inputs of the adapter calls.  The n-th adapter call of a behaviour  *)
(* carries n in its payload, so that a payload names the call it is from.  *)
(***************************************************************************)
\* the texts written
Texts == {"", "out1"}

\* the payload of the n-th call
Token(n) == "v" \o ToString(n)

\* a format dict (MIME type -> representation) already clean
PlainDict(n) == PyDict(<< <<PyStr("text/plain"), PyStr(Token(n))>> >>)

\* a format dict json_clean changes
TupleDict(n) == PyDict(<< <<PyStr("application/json"), PyTuple(<<PyStr(Token(n))>>)>> >>)

\* a format dict whose keys collide under str
CollidingDict(n) ==
    PyDict(<< <<PyInt("1"), PyStr(Token(n))>>, <<PyStr("1"), PyStr(Token(n))>> >>)

\* the format dicts of the n-th call
FormatDicts(n) == {PlainDict(n), TupleDict(n), CollidingDict(n)}

\* the metadata dicts
MetadataDicts == {PyNone, PyDict(<< <<PyStr("isolated"), PyBool(TRUE)>> >>)}

\* the transient dict the engine sends with a display: a display_id with an update
TransientOf(update) ==
    IF update THEN PyDict(<< <<PyStr("display_id"), PyStr("d1")>> >>) ELSE PyNone

\* the execution counts the engine reports
PromptCounts == {1, 2}

\* what the engine hands to _showtraceback: the exception class (its name)
\* or None, the exception or None, the formatted traceback
ErrorInputs ==
    {<<None, PyNone, <<>> >>,
     <<"ValueError", PyObject("boom"), <<"Traceback...", "ValueError: boom">> >>,
     <<"KeyError", PyNone, <<"Traceback...">> >>}

(***************************************************************************)
(* The whole module: any adapter call at any time, under an engine that    *)
(* sets and clears the message id at will and a host that assigns, or      *)
(* removes, its callbacks together.                                        *)
(***************************************************************************)
\* the streams LiteStream keeps as _original_stream are the interpreter's
\* sys.stdout and sys.stderr as they are at import: text streams, with write
Init ==
    /\ InitAdapters
    /\ original_has_write = [n \in StreamNames |-> TRUE]
    /\ InitEngine
    /\ InitClean

\* the engine's position and the direct call of json_clean stay as they are
Idle == UNCHANGED <<engine_vars, clean_vars>>

\* an adapter call made outside the engine's protocol, while the behaviour
\* has calls left
Free == ncalls < MaxCalls /\ Idle

Next ==
    \/ \E id \in RequestIds \cup {None} : set_current_msg_id(id) /\ Idle
    \/ \E assigned \in BOOLEAN : set_callbacks(assigned) /\ Idle
    \/ \E name \in StreamNames : write(name, "out1") /\ Free
    \/ flush("stdout") /\ Free
    \/ \E update \in BOOLEAN :
           publish(TupleDict(ncalls + 1), PyNone, TransientOf(update), update) /\ Free
    \/ clear_output(FALSE) /\ Free
    \/ \E e \in ErrorInputs : showtraceback(e[1], e[2], e[3]) /\ Free
    \/ start_displayhook /\ Free
    \/ \E d \in {TupleDict(ncalls + 1), CollidingDict(ncalls + 1)} :
           write_format_data(d, PyNone) /\ Free
    \/ finish_displayhook(1) /\ Free

Spec == Init /\ [][Next]_vars

(***************************************************************************)
(* The two LiteStream instances alone, their callbacks assigned one by one.*)
(***************************************************************************)
NextStream ==
    \/ \E id \in RequestIds \cup {None} : set_current_msg_id(id) /\ Idle
    \/ \E name \in StreamNames, assigned \in BOOLEAN :
           set_publish_stream_callback(name, assigned) /\ Idle
    \/ \E name \in StreamNames, text \in Texts : write(name, text) /\ Free
    \/ \E name \in StreamNames : flush(name) /\ Free

SpecStream == Init /\ [][NextStream]_vars

(***************************************************************************)
(* The display publisher alone, its callbacks assigned one by one.         *)
(***************************************************************************)
DisplayAttrs ==
    {"clear_output_callback", "update_display_data_callback", "display_data_callback"}

NextDisplay ==
    \/ \E id \in {"req-1", None} : set_current_msg_id(id) /\ Idle
    \/ \E attr \in DisplayAttrs, assigned \in BOOLEAN : set_callback(attr, assigned) /\ Idle
    \/ \E d \in {PlainDict(ncalls + 1), CollidingDict(ncalls + 1)}, update \in BOOLEAN :
           publish(d, PyNone, TransientOf(update), update) /\ Free
    \/ clear_output(FALSE) /\ Free

SpecDisplay == Init /\ [][NextDisplay]_vars

(***************************************************************************)
(* The display hook alone.                                                 *)
(***************************************************************************)
NextHook ==
    \/ \E id \in RequestIds \cup {None} : set_current_msg_id(id) /\ Idle
    \/ \E assigned \in BOOLEAN : set_callback("publish_execution_result", assigned) /\ Idle
    \/ start_displayhook /\ Free
    \/ \E d \in FormatDicts(ncalls + 1), md \in MetadataDicts :
           write_format_data(d, md) /\ Free
    \/ \E count \in PromptCounts : finish_displayhook(count) /\ Free

SpecHook == Init /\ [][NextHook]_vars

(***************************************************************************)
(* The engine following its protocol, every callback assigned: set the    *)
(* message id, run the code (writes, displays), then either the display    *)
(* hook (start, write_format_data, finish) or, on an exception, the        *)
(* traceback hook, and at last set the message id to None.                 *)
(***************************************************************************)
\* the engine, at one of the positions from, makes an adapter call of the
\* request and moves to position to
Engine(from, to) ==
    /\ ncalls < MaxCalls
    /\ pc \in from
    /\ pc' = to
    /\ request' = [request EXCEPT !.calls = Append(@, last')]
    /\ UNCHANGED clean_vars

\* the exceptions the engine reports: the class, the exception, the traceback
RaisedErrors ==
    {<<"ValueError", PyObject("boom"), <<"Traceback...", "ValueError: boom">> >>,
     <<"KeyError", PyObject("'k'"), <<"Traceback...", "KeyError: 'k'">> >>}

NextEngine ==
    \/ /\ pc = "setup"
       /\ set_callbacks(TRUE)
       /\ pc' = "idle"
       /\ UNCHANGED <<request, clean_vars>>
    \/ \E id \in RequestIds :
           /\ pc = "idle"
           /\ set_current_msg_id(id)
           /\ pc' = "running"
           /\ request' = [id |-> id, nlog |-> Len(log), calls |-> <<>>]
           /\ UNCHANGED clean_vars
    \/ \E name \in StreamNames, text \in Texts :
           write(name, text) /\ Engine({"running"}, "running")
    \/ \E update \in BOOLEAN :
           /\ publish(TupleDict(ncalls + 1), PyNone, TransientOf(update), update)
           /\ Engine({"running"}, "running")
    \/ clear_output(FALSE) /\ Engine({"running"}, "running")
    \/ start_displayhook /\ Engine({"running"}, "displayhook")
    \/ \E d \in FormatDicts(ncalls + 1) :
           write_format_data(d, PyNone) /\ Engine({"displayhook"}, "displayhook")
    \/ finish_displayhook(1) /\ Engine({"displayhook"}, "finished")
    \/ \E e \in RaisedErrors :
           showtraceback(e[1], e[2], e[3]) /\ Engine({"running", "displayhook"}, "failed")
    \/ /\ pc \in {"finished", "failed"}
       /\ set_current_msg_id(None)
       /\ pc' = "idle"
       /\ UNCHANGED <<request, clean_vars>>

SpecEngine == Init /\ [][NextEngine]_vars

(***************************************************************************)
(* The engine running requests whose code calls the streams and the        *)
(* display hook in any order and any number of times: a request lasts from *)
(* the setting of the message id to the next setting of it, to an id or to *)
(* None.                                                                   *)
(***************************************************************************)
\* the host assigns every callback, or none, before the first request
setup_callbacks(assigned) ==
    /\ pc = "setup"
    /\ set_callbacks(assigned)
    /\ pc' = "idle"
    /\ UNCHANGED <<request, clean_vars>>

\* the engine sets the message id for a new request
begin_request(from, id) ==
    /\ pc \in from
    /\ set_current_msg_id(id)
    /\ pc' = "running"
    /\ request' = [id |-> id, nlog |-> Len(log), calls |-> <<>>]
    /\ UNCHANGED clean_vars

\* the engine sets the message id to None after a request
end_request(from) ==
    /\ pc \in from
    /\ set_current_msg_id(None)
    /\ pc' = "idle"
    /\ UNCHANGED <<request, clean_vars>>

NextRequest ==
    \/ \E assigned \in BOOLEAN : setup_callbacks(assigned)
    \/ \E id \in RequestIds : begin_request({"idle", "running"}, id)
    \/ \E name \in StreamNames : write(name, "out1") /\ Engine({"running"}, "running")
    \/ \E name \in StreamNames : flush(name) /\ Engine({"running"}, "running")
    \/ start_displayhook /\ Engine({"running"}, "running")
    \/ \E d \in {PlainDict(ncalls + 1), TupleDict(ncalls + 1)} :
           write_format_data(d, PyNone) /\ Engine({"running"}, "running")
    \/ finish_displayhook(1) /\ Engine({"running"}, "running")
    \/ end_request({"running"})

SpecRequest == Init /\ [][NextRequest]_vars

(***************************************************************************)
(* The engine's protocol for the result of a request: set the message id,  *)
(* run the code, then, around the trailing expression, start_displayhook,  *)
(* write_format_data, finish_displayhook; an exception in the code or in   *)
(* write_format_data goes to _showtraceback instead; at last set the       *)
(* message id to None.                                                     *)
(***************************************************************************)
\* the engine, at one of the positions from, makes a call of a hook and
\* moves to position to
Protocol(from, to) ==
    /\ ncalls < MaxHookCalls
    /\ pc \in from
    /\ pc' = to
    /\ request' = [request EXCEPT !.calls = Append(@, last')]
    /\ UNCHANGED clean_vars

\* the exception the engine reports
RaisedError == <<"ValueError", PyObject("boom"), <<"Traceback...", "ValueError: boom">> >>

NextResult ==
    \/ \E assigned \in BOOLEAN : setup_callbacks(assigned)
    \/ \E id \in RequestIds : begin_request({"idle"}, id)
    \/ start_displayhook /\ Protocol({"running"}, "displayhook")
    \/ \E d \in FormatDicts(ncalls + 1), md \in MetadataDicts :
           /\ write_format_data(d, md)
           /\ Protocol({"displayhook"}, IF last'.raised THEN "raising" ELSE "displayhook")
    \/ finish_displayhook(1) /\ Protocol({"displayhook"}, "finished")
    \/ /\ showtraceback(RaisedError[1], RaisedError[2], RaisedError[3])
       /\ Protocol({"running", "displayhook", "raising"}, "failed")
    \/ end_request({"running", "finished", "failed"})

SpecResult == Init /\ [][NextResult]_vars

(***************************************************************************)
(* json_clean called directly on one value of a bounded universe.          *)
(***************************************************************************)
\* the scalars
Scalars ==
    {PyBool(TRUE), PyBool(FALSE), PyInt("7"), PyIntegral("7"), PyFloat("1.5"),
     PyFloat("nan"), PyFloat("inf"), PyFraction("3/2"), PyNone, PyStr("a"),
     PyBytes("AB"), PyObject("<obj>")}

\* the elements of the innermost containers
Leaves == {PyInt("1"), PyNone, PyFloat("nan")}

\* the keys of the dicts
Keys == {PyInt("1"), PyStr("1"), PyBool(TRUE), PyStr("True"), PyStr("a")}

\* k1 == k2 in Python: one key of a dict, not two (True == 1)
py_eq(k1, k2) ==
    \/ k1 = k2
    \/ {k1, k2} = {PyInt("1"), PyBool(TRUE)}

\* the sequences over S of length at most n
SeqsUpTo(S, n) == UNION {[1..k -> S] : k \in 0..n}

\* the dicts of at most MaxKeys entries, no two keys equal, with values in S
DictsOver(S) ==
    UNION {{PyDict([i \in 1..k |-> <<ks[i], vs[i]>>]) :
               ks \in {q \in [1..k -> Keys] :
                          \A i, j \in 1..k : i # j => ~py_eq(q[i], q[j])},
               vs \in [1..k -> S]} : k \in 0..MaxKeys}

\* the lists, tuples, sets, generators and other iterators of at most MaxLen
\* elements of S
SequencesOver(S) ==
    LET seqs == SeqsUpTo(S, MaxLen)
        distinct == {xs \in seqs : \A i, j \in 1..Len(xs) : i # j => xs[i] # xs[j]}
    IN {PyList(xs) : xs \in seqs} \cup {PyTuple(xs) : xs \in seqs}
       \cup {PySet(xs) : xs \in distinct} \cup {PyGenerator(xs) : xs \in seqs}
       \cup {PyIterator(xs) : xs \in seqs}

\* each value of S inside a list, a tuple and a dict
Wrapped(S) ==
    {PyList(<<x>>) : x \in S} \cup {PyTuple(<<PyInt("1"), x>>) : x \in S}
    \cup {PyDict(<< <<PyStr("k"), x>> >>) : x \in S}

\* the containers nested d deep
RECURSIVE Nested(_)
Nested(d) ==
    IF d <= 1 THEN SequencesOver(Leaves) \cup DictsOver(Leaves)
    ELSE Wrapped(Nested(d - 1))

\* the values json_clean is called on: the scalars and the containers nested
\* at most depth deep
CleanInputs(depth) == Scalars \cup UNION {Nested(d) : d \in 1..depth}

InitNorm ==
    /\ InitAdapters
    /\ original_has_write = [n \in StreamNames |-> TRUE]
    /\ InitEngine
    /\ clean_in \in CleanInputs(MaxDepth)
    /\ clean_out = NotCalled

\* the call json_clean(clean_in)
call_json_clean ==
    /\ clean_out = NotCalled
    /\ clean_out' = json_clean(clean_in)
    /\ UNCHANGED <<clean_in, adapter_vars, engine_vars>>

NextNorm == call_json_clean

SpecNorm == InitNorm /\ [][NextNorm]_vars

(***************************************************************************)
(* What the properties below speak of.                                     *)
(***************************************************************************)
\* the most recent step was the adapter call op
IsCall(op) == last.op = op

\* the callback invocations the most recent adapter call made
Emitted == SubSeq(log, last.nlog + 1, Len(log))

\* the texts the most recent adapter call wrote to the original stream name
Sunk(name) ==
    SubSeq(original_stream[name], last.nwritten[name] + 1, Len(original_stream[name]))

\* the invocation of a stream callback
StreamEvent(id, name, text) ==
    [cb |-> "publish_stream_callback", msg_id |-> id, name |-> name, text |-> text]

\* the invocation of display_data_callback or update_display_data_callback
DisplayEvent(cb, id, d, md, transient) ==
    [cb |-> cb, msg_id |-> id, data |-> d, metadata |-> md, transient |-> transient]

\* the invocation of publish_error_callback
ErrorEvent(id, ename, evalue, stb) ==
    [cb |-> "publish_error_callback", msg_id |-> id, ename |-> ename,
     evalue |-> evalue, traceback |-> stb]

\* the callbacks that receive a data payload
DataCallbacks ==
    {"display_data_callback", "update_display_data_callback", "publish_execution_result"}

\* two different keys of the dict d have the same str
Collides(d) ==
    \E i, j \in 1..Len(d.pairs) :
        i # j /\ d.pairs[i][1] # d.pairs[j][1] /\ str(d.pairs[i][1]) = str(d.pairs[j][1])

\* a dict with colliding keys is in obj, where the recursion of json_clean
\* reaches
RECURSIVE HasCollision(_)
HasCollision(obj) ==
    IF obj.t = "dict"
    THEN Collides(obj) \/ \E i \in 1..Len(obj.pairs) : HasCollision(obj.pairs[i][2])
    ELSE IF obj.t \in {"list", "tuple", "set", "generator", "iterator"}
    THEN \E i \in 1..Len(obj.items) : HasCollision(obj.items[i])
    ELSE FALSE

\* out keeps every entry of every dict of obj: one string key, the str of
\* the key, per key, in the same order, no two the same
RECURSIVE KeepsEntries(_, _)
KeepsEntries(obj, out) ==
    IF obj.t = "dict"
    THEN /\ out.t = "dict"
         /\ Len(out.pairs) = Len(obj.pairs)
         /\ \A i \in 1..Len(obj.pairs) :
                /\ out.pairs[i][1] = PyStr(str(obj.pairs[i][1]))
                /\ KeepsEntries(obj.pairs[i][2], out.pairs[i][2])
         /\ \A i, j \in 1..Len(out.pairs) : i # j => out.pairs[i][1] # out.pairs[j][1]
    ELSE IF obj.t \in {"list", "tuple", "set", "generator", "iterator"}
    THEN /\ out.t = "list"
         /\ Len(out.items) = Len(obj.items)
         /\ \A i \in 1..Len(obj.items) : KeepsEntries(obj.items[i], out.items[i])
    ELSE TRUE

\* x is JSON-safe: None, a bool, an int, a finite float, a str, a list of
\* such, or a dict of such under str keys
RECURSIVE IsJsonSafe(_)
IsJsonSafe(x) ==
    \/ x.t \in {"none", "bool", "int", "str"}
    \/ x.t = "float" /\ ~isnan_or_isinf(x.v)
    \/ x.t = "list" /\ \A i \in 1..Len(x.items) : IsJsonSafe(x.items[i])
    \/ x.t = "dict" /\ \A i \in 1..Len(x.pairs) :
                           x.pairs[i][1].t = "str" /\ IsJsonSafe(x.pairs[i][2])

(***************************************************************************)
(* Properties of LiteStream.write, under SpecStream.                       *)
(***************************************************************************)
\* C1 (as amended): with a callback assigned to the stream, write(text)
\* calls it once, with (the active message id, the stream's name, the text),
\* when a request is active, and does not call it when none is.
C1_WriteCallsCallbackOnlyWhenActive ==
    IsCall("write") /\ last.cb.publish_stream_callback[last.args.name]
    => Emitted = IF last.msg_id # None
                 THEN <<StreamEvent(last.msg_id, last.args.name, last.args.text)>>
                 ELSE <<>>

\* C1 as stated: with a callback assigned, every write calls it with (the
\* active id or none, the name, the text), also when no request is active.
C1_WriteAlwaysCallsCallback ==
    IsCall("write") /\ last.cb.publish_stream_callback[last.args.name]
    => Emitted = <<StreamEvent(last.msg_id, last.args.name, last.args.text)>>

\* a write of "out1" with a callback assigned and no request active
C1_Witness ==
    /\ IsCall("write")
    /\ last.cb.publish_stream_callback[last.args.name]
    /\ last.msg_id = None
    /\ last.args.text = "out1"

\* C2 (as amended): with no callback assigned, write hands the text
\* unchanged to the original stream (a stream with a write method) and calls
\* no callback, whether or not a request is active, the choice being made at
\* each write from the callback attribute as it then is; the text goes
\* nowhere exactly when a callback is assigned and no request is active (or
\* when the original stream has no write method).
C2_WriteFallsBackWithoutCallback ==
    IsCall("write")
    => LET name == last.args.name
           assigned == last.cb.publish_stream_callback[name]
       IN /\ ~assigned /\ original_has_write[name]
             => Sunk(name) = <<last.args.text>> /\ Emitted = <<>>
          /\ (Emitted = <<>> /\ Sunk(name) = <<>>)
             <=> \/ assigned /\ last.msg_id = None
                 \/ ~assigned /\ ~original_has_write[name]
          /\ \A other \in StreamNames \ {name} : Sunk(other) = <<>>

\* C2 as stated: the text of a write, if it has any, is never discarded,
\* and with no callback assigned it goes unchanged to the original stream
\* and no callback is called.
C2_WriteNeverDiscards ==
    IsCall("write")
    => LET name == last.args.name
       IN /\ last.args.text # "" => Emitted # <<>> \/ Sunk(name) # <<>>
          /\ ~last.cb.publish_stream_callback[name]
             => Sunk(name) = <<last.args.text>> /\ Emitted = <<>>

\* a write that went to the original stream, while a request was active,
\* after a write to the same stream that went to the callback
C2_Witness ==
    /\ IsCall("write")
    /\ ~last.cb.publish_stream_callback[last.args.name]
    /\ last.msg_id # None
    /\ Sunk(last.args.name) = <<"out1">>
    /\ \E i \in 1..Len(log) : log[i].name = last.args.name

(***************************************************************************)
(* Properties of LiteDisplayPublisher, under SpecDisplay.                  *)
(***************************************************************************)
\* the precondition of C3: publish(update=True), a request active,
\* display_data_callback assigned, update_display_data_callback not
UpdateWithoutUpdateCallback ==
    /\ IsCall("publish")
    /\ last.args.update
    /\ last.msg_id # None
    /\ last.cb.display_data_callback
    /\ ~last.cb.update_display_data_callback

\* C3 (as amended): publish(data, update=True) with a request active,
\* display_data_callback assigned and no update_display_data_callback calls
\* display_data_callback once, with (the message id, data, metadata,
\* transient), and calls nothing else.
C3_UpdateFallsBackToDisplay ==
    UpdateWithoutUpdateCallback
    => Emitted = <<DisplayEvent("display_data_callback", last.msg_id, last.args.data,
                                last.args.metadata, last.args.transient)>>

\* C3 as stated: that publish dispatches nothing.
C3_UpdateWithoutCallbackDispatchesNothing ==
    UpdateWithoutUpdateCallback => Emitted = <<>>

\* such a publish has been made
C3_Witness ==
    UpdateWithoutUpdateCallback /\ Len(Emitted) = 1

\* C7 (as amended): publish with data whose keys collide under str does not
\* fail; it hands the data as it is, colliding keys and all, to the callback
\* its routing picks: update_display_data_callback for an update when it is
\* assigned, else display_data_callback when it is assigned, and to none
\* when no request is active.
C7_PublishPassesCollidingKeys ==
    IsCall("publish") /\ Collides(last.args.data)
    => /\ ~last.raised
       /\ Emitted =
              IF last.msg_id = None THEN <<>>
              ELSE IF last.args.update /\ last.cb.update_display_data_callback
              THEN <<DisplayEvent("update_display_data_callback", last.msg_id,
                                  last.args.data, last.args.metadata,
                                  last.args.transient)>>
              ELSE IF last.cb.display_data_callback
              THEN <<DisplayEvent("display_data_callback", last.msg_id, last.args.data,
                                  last.args.metadata, last.args.transient)>>
              ELSE <<>>

\* C7 as stated: publish with data whose keys collide under str fails with
\* the collision error and dispatches nothing.
C7_PublishRaisesOnCollision ==
    IsCall("publish") /\ Collides(last.args.data)
    => last.raised /\ Emitted = <<>>

\* a publish of colliding keys that reached a callback
C7_Witness ==
    IsCall("publish") /\ Collides(last.args.data) /\ Len(Emitted) = 1

(***************************************************************************)
(* Properties of the whole module, under Spec.                             *)
(***************************************************************************)
\* C4: a publish, clear_output, finish_displayhook or _showtraceback made
\* while no request is active calls no callback, and no payload dropped by
\* such a call is ever handed to a callback afterwards.
C4_NoRequestDropsForGood ==
    /\ last.op \in {"publish", "clear_output", "finish_displayhook", "_showtraceback"}
       /\ last.msg_id = None
       => Emitted = <<>>
    /\ \A i \in 1..Len(log) :
           log[i].cb \in DataCallbacks => log[i].data \notin dropped

\* a result dispatched after an earlier call dropped its payload
C4_Witness ==
    /\ dropped # {}
    /\ IsCall("finish_displayhook")
    /\ Len(Emitted) = 1

\* C5: every callback invocation carries a message id that is not None and
\* is the value _current_msg_id has during the call that makes it.
C5_EventsCarryTheActiveId ==
    /\ \A i \in 1..Len(log) : log[i].msg_id \in RequestIds
    /\ last.op # "none"
       => /\ last.msg_id = current_msg_id
          /\ \A i \in 1..Len(Emitted) : Emitted[i].msg_id = current_msg_id

\* two invocations under different ids: the id was overwritten in between
C5_Witness ==
    /\ Len(log) >= 2
    /\ log[Len(log)].msg_id # log[Len(log) - 1].msg_id
    /\ Len(Emitted) = 1

\* C8 (as amended): the data of every execute result handed to
\* publish_execution_result is JSON-safe, being what json_clean made of the
\* format dict given to write_format_data (or the empty dict); the data
\* handed to display_data_callback and update_display_data_callback is the
\* value given to publish, unchanged and not cleaned.
C8_ResultsAreCleanedDisplaysAreNot ==
    /\ IsJsonSafe(data)
    /\ IsCall("write_format_data") /\ ~last.raised
       => data = json_clean(last.args.format_dict)
    /\ IsCall("finish_displayhook")
       => \A i \in 1..Len(Emitted) : Emitted[i].data = last.data
    /\ IsCall("publish")
       => \A i \in 1..Len(Emitted) : Emitted[i].data = last.args.data
    /\ \A i \in 1..Len(log) :
           log[i].cb = "publish_execution_result" => IsJsonSafe(log[i].data)

\* C8 as stated: the data of every display, update and result invocation is
\* JSON-safe, being json_clean of the value the engine gave.
C8_EveryPayloadIsCleaned ==
    /\ \A i \in 1..Len(log) : log[i].cb \in DataCallbacks => IsJsonSafe(log[i].data)
    /\ IsCall("publish")
       => \A i \in 1..Len(Emitted) : Emitted[i].data = json_clean(last.args.data)

\* a cleaned result and an uncleaned display have both been handed over
C8_Witness ==
    \E i, j \in 1..Len(log) :
        /\ log[i].cb = "publish_execution_result"
        /\ log[i].data # EmptyDict
        /\ log[j].cb = "display_data_callback"
        /\ ~IsJsonSafe(log[j].data)

(***************************************************************************)
(* Properties of LiteDisplayHook, under SpecHook.                          *)
(***************************************************************************)
\* C6: after finish_displayhook, data and metadata are both empty, whether
\* the result was dispatched, dropped for want of a request or dropped for
\* want of a callback.
C6_FinishEmptiesTheHook ==
    IsCall("finish_displayhook") => data = EmptyDict /\ metadata = EmptyDict

\* a finish with data and metadata recorded, a callback assigned and no
\* request active
C6_Witness ==
    /\ IsCall("finish_displayhook")
    /\ last.data # EmptyDict
    /\ last.metadata # EmptyDict
    /\ last.cb.publish_execution_result
    /\ last.msg_id = None

(***************************************************************************)
(* Properties of a request run by the engine, under SpecEngine.            *)
(***************************************************************************)
\* the request just ended made writes only and then raised
WritesThenRaised ==
    /\ pc = "idle"
    /\ request.id # None
    /\ Len(request.calls) >= 2
    /\ \A i \in 1..(Len(request.calls) - 1) : request.calls[i].op = "write"
    /\ request.calls[Len(request.calls)].op = "_showtraceback"

\* C9: with every callback assigned, a request that writes and then raises,
\* the engine then calling _showtraceback and setting the message id to
\* None, leaves in the log exactly its stream events in the order of the
\* writes and then one error event (the class's name, str of the exception,
\* the traceback as given), all under the request's id, and no result.
C9_WritesThenErrorLog ==
    WritesThenRaised
    => /\ current_msg_id = None
       /\ SubSeq(log, request.nlog + 1, Len(log)) =
              [i \in 1..Len(request.calls) |->
                  LET c == request.calls[i]
                  IN IF c.op = "write"
                     THEN StreamEvent(request.id, c.args.name, c.args.text)
                     ELSE ErrorEvent(request.id, c.args.etype, str(c.args.evalue),
                                     c.args.stb)]

\* a request of two writes and an exception has ended
C9_Witness ==
    WritesThenRaised /\ Len(request.calls) = 3 /\ Len(log) = request.nlog + 3

(***************************************************************************)
(* Properties of json_clean, under SpecNorm.                               *)
(***************************************************************************)
\* C10: json_clean loses no entry of a dict: when two different keys of a
\* dict it reaches have the same str it raises and returns nothing, and
\* otherwise every dict of its result has one str key per key of the input.
C10_CleanKeepsEntriesOrRaises ==
    clean_out # NotCalled
    => IF HasCollision(clean_in) THEN clean_out = Raised
       ELSE clean_out.t # "raise" /\ KeepsEntries(clean_in, clean_out)

\* json_clean has raised on a collision below the top of its argument
C10_Witness ==
    /\ clean_out = Raised
    /\ clean_in.t \in {"list", "tuple"}
    /\ HasCollision(clean_in)

\* the reprs of the floats that are not finite
NonFinite == {"nan", "inf", "-inf"}

\* out is what the rules, taken in their order, make of obj, for an obj in
\* which no keys collide: a bool is itself, an int the int, a float that is
\* not finite its repr and any other real the float, None and a str
\* themselves, bytes and any other object a str, a tuple, set, generator,
\* iterator or list the list of what the rules make of its elements, a dict
\* the dict of the strs of its keys with what the rules make of its values
RECURSIVE FollowsRules(_, _)
FollowsRules(obj, out) ==
    CASE obj.t = "bool" -> out = obj
      [] obj.t \in {"int", "integral"} -> out = [t |-> "int", v |-> obj.v]
      [] obj.t = "float" ->
             out = IF obj.v \in NonFinite THEN [t |-> "str", v |-> obj.v] ELSE obj
      [] obj.t = "fraction" -> out.t = "float" /\ out.v \notin NonFinite
      [] obj.t \in {"none", "str"} -> out = obj
      [] obj.t \in {"tuple", "set", "generator", "iterator", "list"} ->
             /\ out.t = "list"
             /\ Len(out.items) = Len(obj.items)
             /\ \A i \in 1..Len(obj.items) : FollowsRules(obj.items[i], out.items[i])
      [] obj.t = "dict" ->
             /\ out.t = "dict"
             /\ Len(out.pairs) = Len(obj.pairs)
             /\ \A i \in 1..Len(obj.pairs) :
                    /\ out.pairs[i][1] = [t |-> "str", v |-> obj.pairs[i][1].v]
                    /\ FollowsRules(obj.pairs[i][2], out.pairs[i][2])
      [] OTHER -> out.t = "str"

\* C11: json_clean agrees with the rules in their order on every value of
\* the universe: a bool comes back unchanged (not as an int), an int stays
\* an int, a float that is not finite becomes its repr, None and a str are
\* unchanged, a tuple, set or iterator becomes a list, and lists and dicts
\* are cleaned element by element; colliding keys raise.
C11_CleanFollowsTheRules ==
    clean_out # NotCalled
    => IF HasCollision(clean_in) THEN clean_out = Raised
       ELSE FollowsRules(clean_in, clean_out)

\* json_clean has cleaned a dict holding a list holding a tuple
C11_Witness ==
    /\ clean_out \notin {NotCalled, Raised}
    /\ clean_in.t = "dict"
    /\ Len(clean_in.pairs) = 1
    /\ clean_in.pairs[1][2].t = "list"
    /\ clean_in.pairs[1][2].items[1].t = "tuple"
    /\ clean_out.pairs[1][2].items[1].t = "list"

\* C12: whenever json_clean returns, its result is, at every level of
\* nesting, None, a bool, an int, a finite float, a str, a list or a dict
\* with str keys: no tuple, set, iterator, bytes, other key or other object.
C12_CleanResultIsJsonSafe ==
    clean_out # NotCalled /\ clean_out # Raised => IsJsonSafe(clean_out)

\* json_clean has returned for a tuple holding a set with a float in it
C12_Witness ==
    /\ clean_out \notin {NotCalled, Raised}
    /\ clean_in.t = "tuple"
    /\ Len(clean_in.items) = 2
    /\ clean_in.items[2].t = "set"
    /\ \E i \in 1..Len(clean_in.items[2].items) : clean_in.items[2].items[i].t = "float"
    /\ ~IsJsonSafe(clean_in)

(***************************************************************************)
(* Properties of LiteInteractiveShell._showtraceback, under Spec.          *)
(***************************************************************************)
\* C13: _showtraceback(etype, evalue, stb) calls publish_error_callback
\* once exactly when a request is active, the callback is assigned and
\* etype is not None, with the class's name, str of the exception ("" when
\* it is None) and stb as given; _showtraceback(None, None, []) calls
\* nothing.
C13_ErrorDispatchedIffActive ==
    IsCall("_showtraceback")
    => Emitted =
           IF /\ last.msg_id # None
              /\ last.cb.publish_error_callback
              /\ last.args.etype # None
           THEN <<ErrorEvent(last.msg_id, last.args.etype,
                             IF last.args.evalue.t = "none" THEN ""
                             ELSE last.args.evalue.v,
                             last.args.stb)>>
           ELSE <<>>

\* an error with no exception object has been dispatched, under its
\* class's name and with an empty message
C13_Witness ==
    /\ IsCall("_showtraceback")
    /\ last.args.evalue.t = "none"
    /\ Len(Emitted) = 1
    /\ Emitted[1].ename = "KeyError"
    /\ Emitted[1].evalue = ""

(***************************************************************************)
(* Properties of the requests of SpecRequest.                              *)
(***************************************************************************)
\* the places in the log of the results dispatched during the request
ResultsOfRequest ==
    {i \in (request.nlog + 1)..Len(log) : log[i].cb = "publish_execution_result"}

\* the request's calls of finish_displayhook
FinishesOfRequest ==
    {i \in 1..Len(request.calls) : request.calls[i].op = "finish_displayhook"}

\* C14 (as amended): each finish_displayhook called during a request while
\* publish_execution_result is assigned dispatches one result, so a request
\* gets as many results as it has such calls: at most one when the engine
\* calls finish_displayhook at most once in the request, and more than one
\* when it calls it more than once.
C14_OneResultPerFinish ==
    request.id # None
    => /\ Cardinality(ResultsOfRequest) =
              Cardinality({i \in FinishesOfRequest :
                              request.calls[i].cb.publish_execution_result})
       /\ Cardinality(FinishesOfRequest) <= 1 => Cardinality(ResultsOfRequest) <= 1

\* C14 as stated: at most one result is dispatched between one setting of
\* the message id and the next, however often finish_displayhook is called.
C14_AtMostOneResultPerRequest ==
    request.id # None => Cardinality(ResultsOfRequest) <= 1

\* a request with two calls of finish_displayhook and two results
C14_Witness ==
    /\ request.id # None
    /\ Cardinality(FinishesOfRequest) = 2
    /\ Cardinality(ResultsOfRequest) = 2

\* the call c, made with a request active, had its callback assigned
Delivers(c) ==
    \/ c.op = "write" /\ c.cb.publish_stream_callback[c.args.name]
    \/ c.op = "finish_displayhook" /\ c.cb.publish_execution_result

\* the callback invocations made during the request
LogOfRequest == SubSeq(log, request.nlog + 1, Len(log))

\* C15: within a request the callback invocations come in the order of the
\* calls that cause them, so the stream event of every write made before a
\* finish_displayhook is in the log before that call's result; and flush
\* delivers nothing and changes nothing.
C15_EventsInCallOrder ==
    /\ request.id # None
       => LET sent == SelectSeq(request.calls, Delivers)
          IN /\ Len(LogOfRequest) = Len(sent)
             /\ \A i \in 1..Len(sent) :
                    IF sent[i].op = "write"
                    THEN LogOfRequest[i] =
                             StreamEvent(request.id, sent[i].args.name, sent[i].args.text)
                    ELSE LogOfRequest[i].cb = "publish_execution_result"
    /\ IsCall("flush")
       => /\ Emitted = <<>>
          /\ \A name \in StreamNames : Sunk(name) = <<>>
          /\ current_msg_id = last.msg_id
          /\ Callbacks = last.cb
          /\ data = last.data
          /\ metadata = last.metadata

\* a request that wrote, flushed and finished: the stream event, then the
\* result
C15_Witness ==
    /\ Len(request.calls) = 3
    /\ request.calls[1].op = "write"
    /\ request.calls[2].op = "flush"
    /\ request.calls[3].op = "finish_displayhook"
    /\ Len(LogOfRequest) = 2
    /\ LogOfRequest[1].cb = "publish_stream_callback"
    /\ LogOfRequest[2].cb = "publish_execution_result"

(***************************************************************************)
(* Properties of the results of SpecResult.                                *)
(***************************************************************************)
\* the request's calls of write_format_data that returned
RecordsOfRequest ==
    {i \in 1..Len(request.calls) :
        request.calls[i].op = "write_format_data" /\ ~request.calls[i].raised}

\* the result event carries what the call c of write_format_data was given:
\* the format dict cleaned, and the metadata dict or the empty dict
CarriesRecord(event, c) ==
    /\ FollowsRules(c.args.format_dict, event.data)
    /\ event.metadata = IF c.args.md_dict.t = "none" THEN PyDict(<<>>) ELSE c.args.md_dict

\* the result event is empty
CarriesNothing(event) ==
    event.data = PyDict(<<>>) /\ event.metadata = PyDict(<<>>)

\* C16: after start_displayhook and any number of write_format_data calls,
\* the result finish_displayhook dispatches carries the cleaned data and
\* the metadata (or the empty dict) of the most recent of them and nothing
\* of an earlier one; with no such call it carries empty data and metadata.
C16_ResultIsTheLastRecord ==
    IsCall("finish_displayhook") /\ Emitted # <<>>
    => /\ Len(Emitted) = 1
       /\ IF RecordsOfRequest = {}
          THEN CarriesNothing(Emitted[1])
          ELSE LET latest == CHOOSE i \in RecordsOfRequest :
                                 \A j \in RecordsOfRequest : j <= i
               IN CarriesRecord(Emitted[1], request.calls[latest])

\* a result dispatched after two write_format_data calls with different
\* format dicts and different metadata
C16_Witness ==
    /\ IsCall("finish_displayhook")
    /\ Len(Emitted) = 1
    /\ Cardinality(RecordsOfRequest) = 2
    /\ \E i, j \in RecordsOfRequest :
           /\ i < j
           /\ request.calls[i].args.format_dict.pairs[1][1]
                  # request.calls[j].args.format_dict.pairs[1][1]
           /\ request.calls[i].args.md_dict # request.calls[j].args.md_dict

\* C18: when the engine follows its protocol, the result of a request
\* carries nothing recorded during an earlier request: it is empty or
\* carries what a write_format_data call of the same request was given,
\* also when the earlier request ended in an exception and
\* finish_displayhook was never called for it.
C18_ResultIsOfItsOwnRequest ==
    request.id # None
    => \A i \in ResultsOfRequest :
           /\ log[i].msg_id = request.id
           /\ \/ CarriesNothing(log[i])
              \/ \E j \in RecordsOfRequest : CarriesRecord(log[i], request.calls[j])

\* a result dispatched in a request that began with the data of an earlier
\* request, one that never reached finish_displayhook, still in the hook
C18_Witness ==
    /\ IsCall("finish_displayhook")
    /\ Len(Emitted) = 1
    /\ request.calls[1].op = "start_displayhook"
    /\ request.calls[1].data # PyDict(<<>>)
    /\ \E i \in 1..request.nlog : log[i].cb = "publish_error_callback"

(***************************************************************************)
(* Properties of every adapter call, under Spec.                           *)
(***************************************************************************)
\* the callbacks a call of op may invoke
CallbacksOf(op) ==
    CASE op = "write" -> {"publish_stream_callback"}
      [] op = "publish" -> {"display_data_callback", "update_display_data_callback"}
      [] op = "clear_output" -> {"clear_output_callback"}
      [] op = "finish_displayhook" -> {"publish_execution_result"}
      [] op = "_showtraceback" -> {"publish_error_callback"}
      [] OTHER -> {}

\* C17: each adapter call invokes at most one callback, one of its own, and
\* at most once; a write that delivers delivers its whole text in one
\* event, and a publish never invokes both display_data_callback and
\* update_display_data_callback.
C17_AtMostOneInvocationPerCall ==
    last.op # "none"
    => /\ Len(Emitted) <= 1
       /\ \A i \in 1..Len(Emitted) : Emitted[i].cb \in CallbacksOf(last.op)
       /\ IsCall("write") /\ Emitted # <<>>
          => Emitted[1].text = last.args.text /\ Emitted[1].name = last.args.name

\* a publish of an update, with both display callbacks assigned, has
\* invoked one of them
C17_Witness ==
    /\ IsCall("publish")
    /\ last.args.update
    /\ last.cb.display_data_callback
    /\ last.cb.update_display_data_callback
    /\ Len(Emitted) = 1
    /\ Emitted[1].cb = "update_display_data_callback"

(***************************************************************************)
(* Properties of LiteDisplayHook.write_format_data, under SpecHook.        *)
(***************************************************************************)
\* C19: write_format_data raises exactly when the keys of the format dict
\* collide, and then leaves data and metadata as they were before the call
\* and invokes no callback.
C19_FailedRecordChangesNothing ==
    IsCall("write_format_data")
    => /\ last.raised <=> HasCollision(last.args.format_dict)
       /\ last.raised
          => /\ data = last.data
             /\ metadata = last.metadata
             /\ Emitted = <<>>

\* a write_format_data that raised, given metadata, on a hook holding data
\* and no metadata
C19_Witness ==
    /\ IsCall("write_format_data")
    /\ last.raised
    /\ last.data # PyDict(<<>>)
    /\ last.metadata = PyDict(<<>>)
    /\ last.args.md_dict.t = "dict"

(***************************************************************************)
(* The frame of the adapter calls, under Spec.                             *)
(***************************************************************************)
\* the calls that are none of the display hook's
NotOfTheHook == {"write", "flush", "publish", "clear_output", "_showtraceback"}

\* C20: no adapter call changes _current_msg_id or a callback attribute,
\* and write, flush, publish, clear_output and _showtraceback leave the
\* display hook's data and metadata as they were.
C20_CallsKeepIdCallbacksAndHook ==
    last.op # "none"
    => /\ current_msg_id = last.msg_id
       /\ Callbacks = last.cb
       /\ last.op \in NotOfTheHook => data = last.data /\ metadata = last.metadata

\* a _showtraceback that dispatched, made while the hook held data
C20_Witness ==
    /\ IsCall("_showtraceback")
    /\ Len(Emitted) = 1
    /\ last.data # PyDict(<<>>)
    /\ data = last.data

====
